---- MODULE Spec2Model ----
(***************************************************************************)
(* Session lifecycle and relay engine of the AMP-to-RTSP proxy.            *)
(*                                                                         *)
(*   protocols/session.go  Sessions / SessionBase  (the session registry)  *)
(*   proxies/amp proxy     AmpProxy                (the orchestrator)      *)
(*   proxies/udp.go        UdpProxy / NewUdpProxyPair (relay, allocator)   *)
(*                                                                         *)
(* Each component is a group of variables with its own next-state          *)
(* relation; a specification runs one component and leaves the others at   *)
(* their initial value.                                                    *)
(***************************************************************************)
EXTENDS Integers, Sequences, FiniteSets, TLC

\* ------------------------------------------------------------------------
\* Bounds of the model
\* ------------------------------------------------------------------------
MaxBases == 2          \* SessionBase objects created by NewSession in one run
MaxObservees == 1      \* observees declared by all the sessions of one run

\* ------------------------------------------------------------------------
\* Session registry: protocols/session.go
\* ------------------------------------------------------------------------
VARIABLES
    sessions,   \* Sessions map: key -> SessionBase (0 = no entry)
    bases,      \* the SessionBase objects created so far, with their watcher
    main,       \* the caller of the registry: position and locals
    result      \* what the last registry call returned

regVars == <<sessions, bases, main, result>>

\* Orchestrator (AmpProxy)
VARIABLES
    psessions,  \* AmpProxy.sessions: client key -> proxySession (0 = no entry)
    psess,      \* the proxySession objects built so far, with relays and watcher
    pmain,      \* the request-handling path: position and locals
    preply,     \* the last reply of startSession / stopSession
    acct,       \* bookkeeping of the requests seen so far: the stop requests
                \* that returned nil, counted as long as the start requests
                \* named pairwise distinct keys and StopServer was not called
    crashed     \* the runtime has aborted the process

proxyVars == <<psessions, psess, pmain, preply, acct, crashed>>

\* Relay-pair allocator (NewUdpProxyPair) on its own
VARIABLES
    occupied,   \* ports bound on the listen host
    lastAlloc   \* the last call of NewUdpProxyPair: arguments and outcome

allocVars == <<occupied, lastAlloc>>

\* One relay (UdpProxy) with its two workers
VARIABLES
    proxy,      \* the UdpProxy: sockets, closeOnce, Closed, Err
    packets,    \* the channel proxy.packets: queued datagrams, closed or not
    pc,         \* position of the controller, of readPackets, of forwardPackets
    buf,        \* the datagram readPackets / forwardPackets holds
    ctl,        \* the controller: Start called or not, Close calls made
    received,   \* datagrams ReadFrom has returned, in order
    written     \* datagrams Write has sent to the target, in order

relayVars == <<proxy, packets, pc, buf, ctl, received, written>>

RegKeys == {"k1", "k2"}
NoBase == 0

ErrNil == "nil"
ErrNoSession == "No session found"
ErrPremature == "Session stopped prematurely: (no error)"

BaseIds == 1..Len(bases)

RECURSIVE Declared(_)
Declared(n) == IF n = 0 THEN 0 ELSE bases[n].nobs + Declared(n - 1)

\* helpers.OneshotCondition: Enable(perform) runs perform for the first caller
\* only; a caller that arrives while perform runs waits for it to end.
\* GateOpen(c) is the test made on entry, GateClaim the transition the winner
\* makes, GateDone the mark left when perform has returned.
GateOpen(b) == b.Stopped = "armed"
GateClaim(b, who) == [b EXCEPT !.Stopped = "firing", !.firedBy = who]
GateDone(b) == [b EXCEPT !.Stopped = "fired"]

\* helpers.OneshotCondition.Enabled(): true once the gate has fired. While
\* perform is running the two readings of the contract (flag set by the
\* compare-and-swap, flag set when perform returns) differ, so a reader may
\* see either value then.
EnabledValues(b) ==
    CASE b.Stopped = "armed" -> {FALSE}
      [] b.Stopped = "firing" -> {FALSE, TRUE}
      [] OTHER -> {TRUE}

\* sync.WaitGroup shared with the observees: Observe(wg) adds one for every
\* observee still running, a finishing observee that was added calls Done.
Unfinished(b) == {i \in 1..b.nobs : b.obs[i] # "finished"}
ObserveAll(b) ==
    [b EXCEPT !.observed = [i \in 1..b.nobs |-> b.obs[i] # "finished"],
              !.wg = Cardinality(Unfinished(b))]
ObserveeDone(b, i) ==
    [b EXCEPT !.obs[i] = "finished",
              !.wg = IF b.observed[i] THEN b.wg - 1 ELSE b.wg]
WgWait(b) == b.wg = 0

\* NewSession's SessionBase literal. cleanups and firedBy record what has
\* happened to the object (they are not fields of the struct).
NewBase(key, n) ==
    [nobs |-> n,
     obs |-> [i \in 1..n |-> "running"],
     observed |-> [i \in 1..n |-> FALSE],
     wg |-> 0,
     Stopped |-> "armed", firedBy |-> "none",
     CleanupErr |-> ErrNil,
     cleanups |-> 0,
     watcher |-> "none"]

\* SessionBase.Stop, body, first statement: every observee is asked to stop
StopObservees(b) ==
    [b EXCEPT !.obs = [i \in 1..b.nobs |->
                         IF b.obs[i] = "running" THEN "stopping" ELSE b.obs[i]]]

\* SessionBase.Stop with the body run by every caller (no one-shot gate)
StopEnterUngated(b, who) == <<StopObservees(GateClaim(b, who)), "stop_wait">>

\* SessionBase.Stop, entry: base.Stopped.Enable(func() {...}). The winner
\* goes on into the body, any other caller waits for the gate. The result is
\* the object and the caller's next position.
StopEnter(b, who) ==
    IF GateOpen(b) THEN <<StopObservees(GateClaim(b, who)), "stop_wait">>
                   ELSE <<b, "stop_blocked">>

\* SessionBase.Stop, body, after base.Wg.Wait(): session.Cleanup(), and
\* Enable returns. Cleanup returns nothing; CleanupErr is assigned nowhere.
StopCleanup(b) == GateDone([b EXCEPT !.cleanups = @ + 1])

Returned(op, key, id, err) == [op |-> op, key |-> key, base |-> id, err |-> err]

Idle == [pc |-> "idle", op |-> "none", key |-> "k1", cur |-> NoBase, todo |-> {}]

\* Sessions.NewSession: the entry is written (an older entry of the key is
\* overwritten), observe() spawns the watcher when the session declares an
\* observee, and the session is started.
NewSession(key, n) ==
    /\ main.pc = "idle"
    /\ Len(bases) < MaxBases
    /\ Declared(Len(bases)) + n <= MaxObservees
    /\ bases' = Append(bases,
           [NewBase(key, n) EXCEPT !.watcher = IF n < 1 THEN "none" ELSE "spawned"])
    /\ sessions' = [sessions EXCEPT ![key] = Len(bases) + 1]
    /\ result' = Returned("NewSession", key, Len(bases) + 1, ErrNil)
    /\ UNCHANGED main

\* Sessions.StopSession without the delete on the "stopped prematurely" path
StopSessionKeepsEntry(key) ==
    /\ main.pc = "idle"
    /\ IF sessions[key] = NoBase
         THEN /\ result' = Returned("StopSession", key, NoBase, ErrNoSession)
              /\ UNCHANGED <<sessions, bases, main>>
         ELSE \E en \in EnabledValues(bases[sessions[key]]) :
                IF en
                  THEN /\ result' = Returned("StopSession", key, sessions[key],
                                             ErrPremature)
                       /\ UNCHANGED <<sessions, bases, main>>
                  ELSE /\ main' = [pc |-> "stop_enter", op |-> "StopSession",
                                   key |-> key, cur |-> sessions[key], todo |-> {}]
                       /\ UNCHANGED <<sessions, bases, result>>

\* Sessions.StopSession up to the call of session.Stop(): no entry, or the
\* gate reads fired (the entry is deleted and the error returned), or Stop is
\* about to be called.
StopSession(key) ==
    /\ main.pc = "idle"
    /\ IF sessions[key] = NoBase
         THEN /\ result' = Returned("StopSession", key, NoBase, ErrNoSession)
              /\ UNCHANGED <<sessions, bases, main>>
         ELSE \E en \in EnabledValues(bases[sessions[key]]) :
                IF en
                  THEN /\ result' = Returned("StopSession", key, sessions[key],
                                             ErrPremature)
                       /\ sessions' = [sessions EXCEPT ![key] = NoBase]
                       /\ UNCHANGED <<bases, main>>
                  ELSE /\ main' = [pc |-> "stop_enter", op |-> "StopSession",
                                   key |-> key, cur |-> sessions[key], todo |-> {}]
                       /\ UNCHANGED <<sessions, bases, result>>

\* Sessions.StopSession, the else branch: session.Stop() is entered
StopSessionStop ==
    /\ main.pc = "stop_enter"
    /\ LET r == StopEnter(bases[main.cur], "main") IN
         /\ bases' = [bases EXCEPT ![main.cur] = r[1]]
         /\ main' = [main EXCEPT !.pc = r[2]]
    /\ UNCHANGED <<sessions, result>>

\* Sessions.StopSessions: range over the map, session.Stop() on each entry
StopSessions ==
    /\ main.pc = "idle"
    /\ main' = [pc |-> "sa_loop", op |-> "StopSessions", key |-> "k1",
                cur |-> NoBase,
                todo |-> {sessions[k] : k \in RegKeys} \ {NoBase}]
    /\ UNCHANGED <<sessions, bases, result>>

\* Sessions.StopSessions with the loop left before any session.Stop()
StopSessionsNextSkips ==
    /\ main.pc = "sa_loop"
    /\ main' = Idle
    /\ result' = Returned("StopSessions", "k1", NoBase, ErrNil)
    /\ UNCHANGED <<sessions, bases>>

\* Sessions.StopSessions, the loop: session.Stop() on the next entry, or the
\* return when the range is through
StopSessionsNext ==
    /\ main.pc = "sa_loop"
    /\ IF main.todo = {}
         THEN /\ main' = Idle
              /\ result' = Returned("StopSessions", "k1", NoBase, ErrNil)
              /\ UNCHANGED bases
         ELSE /\ \E id \in main.todo :
                   LET r == StopEnter(bases[id], "main") IN
                     /\ bases' = [bases EXCEPT ![id] = r[1]]
                     /\ main' = [main EXCEPT !.pc = r[2], !.cur = id,
                                             !.todo = @ \ {id}]
              /\ UNCHANGED result
    /\ UNCHANGED sessions

\* What the caller does when session.Stop() returns: StopSession reads
\* CleanupErr, deletes the entry and returns; StopSessions goes on ranging.
AfterStop ==
    IF main.op = "StopSession"
      THEN /\ result' = Returned("StopSession", main.key, main.cur,
                                 bases[main.cur].CleanupErr)
           /\ sessions' = [sessions EXCEPT ![main.key] = NoBase]
           /\ main' = Idle
      ELSE /\ main' = [main EXCEPT !.pc = "sa_loop", !.cur = NoBase]
           /\ UNCHANGED <<sessions, result>>

\* SessionBase.Stop run by the caller: Wg.Wait() returns, Cleanup runs
MainStopCleanup ==
    /\ main.pc = "stop_wait"
    /\ WgWait(bases[main.cur])
    /\ bases' = [bases EXCEPT ![main.cur] = StopCleanup(@)]
    /\ AfterStop

\* SessionBase.Stop run by the caller while another caller holds the gate
MainStopBlocked ==
    /\ main.pc = "stop_blocked"
    /\ bases[main.cur].Stopped = "fired"
    /\ UNCHANGED bases
    /\ AfterStop

\* SessionBase.observe, the goroutine: WaitForAnyObservee registers with
\* every observee, waits for one to finish, then base.Stop() is called.
WatcherObserve(id) ==
    /\ bases[id].watcher = "spawned"
    /\ bases' = [bases EXCEPT ![id] = [ObserveAll(@) EXCEPT !.watcher = "waiting"]]
    /\ UNCHANGED <<sessions, main, result>>

WatcherStop(id) ==
    /\ bases[id].watcher = "waiting"
    /\ \E i \in 1..bases[id].nobs : bases[id].obs[i] = "finished"
    /\ LET r == StopEnter(bases[id], "watcher") IN
         bases' = [bases EXCEPT ![id] = [r[1] EXCEPT !.watcher = r[2]]]
    /\ UNCHANGED <<sessions, main, result>>

WatcherStopCleanup(id) ==
    /\ bases[id].watcher = "stop_wait"
    /\ WgWait(bases[id])
    /\ bases' = [bases EXCEPT ![id] = [StopCleanup(@) EXCEPT !.watcher = "done"]]
    /\ UNCHANGED <<sessions, main, result>>

WatcherStopBlocked(id) ==
    /\ bases[id].watcher = "stop_blocked"
    /\ bases[id].Stopped = "fired"
    /\ bases' = [bases EXCEPT ![id].watcher = "done"]
    /\ UNCHANGED <<sessions, main, result>>

\* An observee ends, by itself or because it was asked to.
ObserveeFinish(id, i) ==
    /\ bases[id].obs[i] # "finished"
    /\ bases' = [bases EXCEPT ![id] = ObserveeDone(@, i)]
    /\ UNCHANGED <<sessions, main, result>>

InitReg ==
    /\ sessions = [k \in RegKeys |-> NoBase]
    /\ bases = <<>>
    /\ main = Idle
    /\ result = Returned("none", "k1", NoBase, ErrNil)

NextReg ==
    \/ /\ \E k \in RegKeys, n \in 0..MaxObservees : NewSession(k, n)
       /\ UNCHANGED <<proxyVars, allocVars, relayVars>>
    \/ /\ \E k \in RegKeys : StopSession(k)
       /\ UNCHANGED <<proxyVars, allocVars, relayVars>>
    \/ /\ StopSessionStop
       /\ UNCHANGED <<proxyVars, allocVars, relayVars>>
    \/ /\ StopSessions
       /\ UNCHANGED <<proxyVars, allocVars, relayVars>>
    \/ /\ StopSessionsNext
       /\ UNCHANGED <<proxyVars, allocVars, relayVars>>
    \/ /\ MainStopCleanup
       /\ UNCHANGED <<proxyVars, allocVars, relayVars>>
    \/ /\ MainStopBlocked
       /\ UNCHANGED <<proxyVars, allocVars, relayVars>>
    \/ /\ \E id \in BaseIds : WatcherObserve(id)
       /\ UNCHANGED <<proxyVars, allocVars, relayVars>>
    \/ /\ \E id \in BaseIds : WatcherStop(id)
       /\ UNCHANGED <<proxyVars, allocVars, relayVars>>
    \/ /\ \E id \in BaseIds : WatcherStopCleanup(id)
       /\ UNCHANGED <<proxyVars, allocVars, relayVars>>
    \/ /\ \E id \in BaseIds : WatcherStopBlocked(id)
       /\ UNCHANGED <<proxyVars, allocVars, relayVars>>
    \/ /\ \E id \in BaseIds : \E i \in 1..bases[id].nobs : ObserveeFinish(id, i)
       /\ UNCHANGED <<proxyVars, allocVars, relayVars>>

\* ------------------------------------------------------------------------
\* Relay-pair allocator: proxies/udp.go
\* ------------------------------------------------------------------------

\* NewUdpProxy(listenAddr, targetAddr): fails when the target does not
\* resolve or the listen port cannot be bound; DialUDP to a resolved UDP
\* target does not fail.
NewUdpProxy(port, targetOk, inUse) == targetOk /\ port \notin inUse

\* UdpProxy.Close() that leaves the listen socket bound
CloseRelayKeeps(held, port) == held

\* UdpProxy.Close() as the allocator sees it: the listen port is released
CloseRelay(held, port) == held \ {port}

\* NewUdpProxyPair with the candidate advanced by one port instead of two
RECURSIVE ProxyPairLoopByOne(_, _, _, _, _, _, _)
ProxyPairLoopByOne(t1ok, t2ok, startPort, maxP, inUse, held, touched) ==
    LET ok1 == NewUdpProxy(startPort, t1ok, inUse \cup held)
        ok2 == ok1 /\ NewUdpProxy(startPort + 1, t2ok, inUse \cup held \cup {startPort})
        touched2 == touched \cup (IF ok1 THEN {startPort} ELSE {})
                            \cup (IF ok2 THEN {startPort + 1} ELSE {})
        held2 == IF ok1 /\ ~ok2 THEN CloseRelay(held \cup {startPort}, startPort)
                                ELSE held
    IN  IF ok2
          THEN [ok |-> TRUE, rtp |-> startPort, rtcp |-> startPort + 1,
                held |-> held \cup {startPort, startPort + 1},
                touched |-> touched2, startPort |-> startPort]
          ELSE IF startPort + 1 > maxP
                 THEN [ok |-> FALSE, rtp |-> 0, rtcp |-> 0, held |-> held2,
                       touched |-> touched2, startPort |-> startPort + 1]
                 ELSE ProxyPairLoopByOne(t1ok, t2ok, startPort + 1, maxP, inUse,
                                         held2, touched2)

\* NewUdpProxyPair, the for loop. held are the ports the allocator itself has
\* bound and not released, touched every port it has bound at some moment.
RECURSIVE ProxyPairLoop(_, _, _, _, _, _, _)
ProxyPairLoop(t1ok, t2ok, startPort, maxP, inUse, held, touched) ==
    LET ok1 == NewUdpProxy(startPort, t1ok, inUse \cup held)
        ok2 == ok1 /\ NewUdpProxy(startPort + 1, t2ok, inUse \cup held \cup {startPort})
        touched2 == touched \cup (IF ok1 THEN {startPort} ELSE {})
                            \cup (IF ok2 THEN {startPort + 1} ELSE {})
        held2 == IF ok1 /\ ~ok2 THEN CloseRelay(held \cup {startPort}, startPort)
                                ELSE held
    IN  IF ok2
          THEN [ok |-> TRUE, rtp |-> startPort, rtcp |-> startPort + 1,
                held |-> held \cup {startPort, startPort + 1},
                touched |-> touched2, startPort |-> startPort]
          ELSE IF startPort + 2 > maxP
                 THEN [ok |-> FALSE, rtp |-> 0, rtcp |-> 0, held |-> held2,
                       touched |-> touched2, startPort |-> startPort + 2]
                 ELSE ProxyPairLoop(t1ok, t2ok, startPort + 2, maxP, inUse,
                                    held2, touched2)

NewUdpProxyPair(t1ok, t2ok, startPort, maxP, inUse) ==
    ProxyPairLoop(t1ok, t2ok, startPort, maxP, inUse, {}, {})

\* ------------------------------------------------------------------------
\* Orchestrator: AmpProxy
\* ------------------------------------------------------------------------
minPort == 20000
maxPort == 50000

MaxProxySessions == 2   \* proxySession objects built in one run

ReceiverHosts == {"127.0.0.1", "::1"}
ReceiverPorts == {6000}

\* strconv.Itoa for n >= 0
Digit == <<"0", "1", "2", "3", "4", "5", "6", "7", "8", "9">>
RECURSIVE Itoa(_)
Itoa(n) == IF n < 10 THEN Digit[n + 1] ELSE Itoa(n \div 10) \o Digit[(n % 10) + 1]

\* net.JoinHostPort: a host that contains a colon is put in brackets
ContainsColon(host) == host \in {"::1"}
JoinHostPort(host, port) ==
    IF ContainsColon(host) THEN "[" \o host \o "]:" \o port
                           ELSE host \o ":" \o port

ClientKey(host, port) == JoinHostPort(host, Itoa(port))
ClientKeys == {ClientKey(h, p) : h \in ReceiverHosts, p \in ReceiverPorts}

NoSession == 0
SessIds == 1..Len(psess)

PErrNil == "nil"
PErrExists == "Session already exists for client"
PErrAlloc == "Failed to allocate UDP proxy pair in port range"
PErrBackend == "Failed to start RTSP client"
PErrNotFound == "Session not found for client"

\* listen ports held by the relays that are open
RelayPorts(s) ==
    (IF s.rtpClosed THEN {} ELSE {s.rtpPort})
        \cup (IF s.rtcpClosed THEN {} ELSE {s.rtpPort + 1})
RECURSIVE PortsUpTo(_)
PortsUpTo(n) == IF n = 0 THEN {} ELSE RelayPorts(psess[n]) \cup PortsUpTo(n - 1)
BoundPorts == PortsUpTo(Len(psess))

\* a start request has already named this client key
UsedKey(client) == \E i \in SessIds : psess[i].client = client

\* the bookkeeping once a key was named twice or StopServer was called
Uncounted == [distinct |-> FALSE, okStops |-> 0]

Mapped(id) == \E k \in ClientKeys : psessions[k] = id

PIdle == [pc |-> "idle", op |-> "none", cur |-> NoSession]
Reply(op, key, err) == [op |-> op, key |-> key, err |-> err]

\* rtpClient.RtspClient.Stop(): the backend is told to end; stops counts the
\* calls.
BackendStop(s) ==
    [s EXCEPT !.stops = @ + 1,
              !.backend = IF @ = "running" THEN "stopping" ELSE @]

\* UdpProxy.Err: nil, or the error a worker of the relay has passed to doclose
RelayErrNil == "nil"
RelayErrs == {"read error", "write error"}
RelayNames == {"rtp", "rtcp"}

\* UdpProxy.Close() on both relays of a session (each is a sync.Once: Err
\* stays what the first doclose has set)
CloseRelays(s) == [s EXCEPT !.rtpClosed = TRUE, !.rtcpClosed = TRUE]

\* AmpProxy.cleanupSession up to its last statement: backend.Stop(),
\* rtpProxy.Close(), rtcpProxy.Close()
CleanupBegin(s) == CloseRelays(BackendStop(s))

\* proxySession literal of startSession, with the relays of the pair
NewProxySession(client, rtpPort, backend) ==
    [client |-> client, rtpPort |-> rtpPort,
     rtpClosed |-> FALSE, rtcpClosed |-> FALSE,
     rtpErr |-> RelayErrNil, rtcpErr |-> RelayErrNil,
     backend |-> backend, self |-> FALSE, stops |-> 0,
     watcher |-> IF backend = "running" THEN "waiting" ELSE "none"]

\* AmpProxy.startSession without the "already exists" check
StartSessionUnchecked(host, port, backendOk) ==
    LET client == ClientKey(host, port)
        pair == NewUdpProxyPair(TRUE, TRUE, minPort, maxPort, BoundPorts)
        id == Len(psess) + 1
    IN  /\ ~crashed
        /\ pmain.pc = "idle"
        /\ Len(psess) < MaxProxySessions
        /\ acct' = IF UsedKey(client) THEN Uncounted ELSE acct
        /\ UNCHANGED <<pmain, crashed>>
        /\ IF ~pair.ok
             THEN /\ preply' = Reply("start", client, PErrAlloc)
                  /\ UNCHANGED <<psessions, psess>>
             ELSE IF ~backendOk
               THEN /\ preply' = Reply("start", client, PErrBackend)
                    /\ psess' = Append(psess,
                                   NewProxySession(client, pair.rtp, "failed"))
                    /\ UNCHANGED psessions
               ELSE /\ preply' = Reply("start", client, PErrNil)
                    /\ psess' = Append(psess,
                                   NewProxySession(client, pair.rtp, "running"))
                    /\ psessions' = [psessions EXCEPT ![client] = id]

\* AmpProxy.startSession
StartSession(host, port, backendOk) ==
    LET client == ClientKey(host, port)
        pair == NewUdpProxyPair(TRUE, TRUE, minPort, maxPort, BoundPorts)
        id == Len(psess) + 1
    IN  /\ ~crashed
        /\ pmain.pc = "idle"
        /\ psessions[client] # NoSession \/ Len(psess) < MaxProxySessions
        /\ acct' = IF UsedKey(client) THEN Uncounted ELSE acct
        /\ UNCHANGED <<pmain, crashed>>
        /\ IF psessions[client] # NoSession
             THEN /\ preply' = Reply("start", client, PErrExists)
                  /\ UNCHANGED <<psessions, psess>>
             ELSE IF ~pair.ok
               THEN /\ preply' = Reply("start", client, PErrAlloc)
                    /\ UNCHANGED <<psessions, psess>>
               ELSE IF ~backendOk
                 THEN /\ preply' = Reply("start", client, PErrBackend)
                      /\ psess' = Append(psess,
                                     NewProxySession(client, pair.rtp, "failed"))
                      /\ UNCHANGED psessions
                 ELSE /\ preply' = Reply("start", client, PErrNil)
                      /\ psess' = Append(psess,
                                     NewProxySession(client, pair.rtp, "running"))
                      /\ psessions' = [psessions EXCEPT ![client] = id]

\* AmpProxy.stopSession: the lookup, and cleanupSession up to its delete
StopRequest(host, port) ==
    LET client == ClientKey(host, port) IN
        /\ ~crashed
        /\ pmain.pc = "idle"
        /\ UNCHANGED <<psessions, acct, crashed>>
        /\ IF psessions[client] = NoSession
             THEN /\ preply' = Reply("stop", client, PErrNotFound)
                  /\ UNCHANGED <<psess, pmain>>
             ELSE /\ psess' = [psess EXCEPT ![psessions[client]] = CleanupBegin(@)]
                  /\ pmain' = [pc |-> "c_del", op |-> "stop", cur |-> psessions[client]]
                  /\ UNCHANGED preply

\* AmpProxy.StopServer: range over the map, cleanupSession on each entry
StopServer ==
    /\ ~crashed
    /\ pmain.pc = "idle"
    /\ pmain' = [pc |-> "ss_loop", op |-> "StopServer", cur |-> NoSession]
    /\ acct' = Uncounted
    /\ UNCHANGED <<psessions, psess, preply, crashed>>

StopServerNext ==
    /\ ~crashed
    /\ pmain.pc = "ss_loop"
    /\ IF \A k \in ClientKeys : psessions[k] = NoSession
         THEN /\ pmain' = PIdle
              /\ UNCHANGED psess
         ELSE \E k \in ClientKeys :
                /\ psessions[k] # NoSession
                /\ psess' = [psess EXCEPT ![psessions[k]] = CleanupBegin(@)]
                /\ pmain' = [pmain EXCEPT !.pc = "c_del", !.cur = psessions[k]]
    /\ UNCHANGED <<psessions, preply, acct, crashed>>

\* cleanupSession on the request path without its delete
MainDeleteKeepsEntry ==
    /\ ~crashed
    /\ pmain.pc = "c_del"
    /\ IF pmain.op = "stop"
         THEN /\ preply' = Reply("stop", psess[pmain.cur].client, PErrNil)
              /\ acct' = IF acct.distinct THEN [acct EXCEPT !.okStops = @ + 1] ELSE acct
              /\ pmain' = PIdle
         ELSE /\ pmain' = [pmain EXCEPT !.pc = "ss_loop", !.cur = NoSession]
              /\ UNCHANGED <<preply, acct>>
    /\ UNCHANGED <<psessions, psess, crashed>>

\* cleanupSession on the request path: delete(proxy.sessions, session.client),
\* after which stopSession returns nil and StopServer goes on ranging
MainDelete ==
    /\ ~crashed
    /\ pmain.pc = "c_del"
    /\ psessions' = [psessions EXCEPT ![psess[pmain.cur].client] = NoSession]
    /\ IF pmain.op = "stop"
         THEN /\ preply' = Reply("stop", psess[pmain.cur].client, PErrNil)
              /\ acct' = IF acct.distinct THEN [acct EXCEPT !.okStops = @ + 1] ELSE acct
              /\ pmain' = PIdle
         ELSE /\ pmain' = [pmain EXCEPT !.pc = "ss_loop", !.cur = NoSession]
              /\ UNCHANGED <<preply, acct>>
    /\ UNCHANGED <<psess, crashed>>

\* The backend control session ends: by itself, or after Stop()
BackendExit(id) ==
    /\ ~crashed
    /\ psess[id].backend \in {"running", "stopping"}
    /\ psess' = [psess EXCEPT ![id].backend = "finished",
                              ![id].self = (psess[id].backend = "running")]
    /\ UNCHANGED <<psessions, pmain, preply, acct, crashed>>

\* AmpProxy.observe, the goroutine: <-c, RtspEndedCallback, and
\* cleanupSession up to its delete
WatcherWake(id) ==
    /\ ~crashed
    /\ psess[id].watcher = "waiting"
    /\ psess[id].backend = "finished"
    /\ psess' = [psess EXCEPT ![id] = [CleanupBegin(@) EXCEPT !.watcher = "c_del"]]
    /\ UNCHANGED <<psessions, pmain, preply, acct, crashed>>

\* the goroutine's delete(proxy.sessions, session.client): by key
WatcherDelete(id) ==
    /\ ~crashed
    /\ psess[id].watcher = "c_del"
    /\ psessions' = [psessions EXCEPT ![psess[id].client] = NoSession]
    /\ psess' = [psess EXCEPT ![id].watcher = "done"]
    /\ UNCHANGED <<pmain, preply, acct, crashed>>

\* The request path is at (or, being idle, can at any moment be at) an access
\* of proxy.sessions while a watcher goroutine is at its delete: the map is
\* accessed from two goroutines with nothing ordering the accesses.
MapRace ==
    /\ pmain.pc \in {"idle", "c_del", "ss_loop"}
    /\ \E id \in SessIds : psess[id].watcher = "c_del"

\* One outcome of the unordered accesses: the runtime detects the concurrent
\* map access and aborts the process ("fatal error: concurrent map writes").
\* The other outcome is that the accesses happen one after the other.
MapRaceFault ==
    /\ ~crashed
    /\ MapRace
    /\ crashed' = TRUE
    /\ UNCHANGED <<psessions, psess, pmain, preply, acct>>

MaxRelayErrors == 2     \* transport errors that hit relays in one run

RelayErrors ==
    Cardinality({id \in SessIds : psess[id].rtpErr # RelayErrNil})
        + Cardinality({id \in SessIds : psess[id].rtcpErr # RelayErrNil})

\* doclose(err) on a relay and on its partner as well
DoCloseRelayAndPartner(s, relay, err) ==
    [s EXCEPT !.rtpClosed = TRUE, !.rtcpClosed = TRUE,
              !.rtpErr = IF relay = "rtp" THEN err ELSE @,
              !.rtcpErr = IF relay = "rtcp" THEN err ELSE @]

\* UdpProxy.doclose(err) reached from readPackets or forwardPackets of one
\* relay of a session, the relay being open: its sockets are closed, Err and
\* Closed are set. The signal on proxyClosed has no receiver in AmpProxy.
DoCloseRelay(s, relay, err) ==
    IF relay = "rtp" THEN [s EXCEPT !.rtpClosed = TRUE, !.rtpErr = err]
                     ELSE [s EXCEPT !.rtcpClosed = TRUE, !.rtcpErr = err]

\* ReadFrom or Write fails on an open relay of a session
RelayError(id, relay, err) ==
    /\ ~crashed
    /\ RelayErrors < MaxRelayErrors
    /\ IF relay = "rtp" THEN ~psess[id].rtpClosed ELSE ~psess[id].rtcpClosed
    /\ psess' = [psess EXCEPT ![id] = DoCloseRelay(@, relay, err)]
    /\ UNCHANGED <<psessions, pmain, preply, acct, crashed>>

InitProxy ==
    /\ psessions = [k \in ClientKeys |-> NoSession]
    /\ psess = <<>>
    /\ pmain = PIdle
    /\ preply = Reply("none", "", PErrNil)
    /\ acct = [distinct |-> TRUE, okStops |-> 0]
    /\ crashed = FALSE

NextProxy ==
    \/ /\ \E h \in ReceiverHosts, p \in ReceiverPorts, ok \in BOOLEAN :
              StartSession(h, p, ok)
       /\ UNCHANGED <<regVars, allocVars, relayVars>>
    \/ /\ \E h \in ReceiverHosts, p \in ReceiverPorts : StopRequest(h, p)
       /\ UNCHANGED <<regVars, allocVars, relayVars>>
    \/ /\ StopServer
       /\ UNCHANGED <<regVars, allocVars, relayVars>>
    \/ /\ StopServerNext
       /\ UNCHANGED <<regVars, allocVars, relayVars>>
    \/ /\ MainDelete
       /\ UNCHANGED <<regVars, allocVars, relayVars>>
    \/ /\ \E id \in SessIds : BackendExit(id)
       /\ UNCHANGED <<regVars, allocVars, relayVars>>
    \/ /\ \E id \in SessIds : WatcherWake(id)
       /\ UNCHANGED <<regVars, allocVars, relayVars>>
    \/ /\ \E id \in SessIds : WatcherDelete(id)
       /\ UNCHANGED <<regVars, allocVars, relayVars>>
    \/ /\ MapRaceFault
       /\ UNCHANGED <<regVars, allocVars, relayVars>>

\* The request path of the orchestrator with transport errors on the relays
\* of its sessions: sessions are started and stopped by requests while
\* ReadFrom or Write fails on relays. (No code of AmpProxy receives from
\* ProxyClosed() or reads Closed or Err of a relay.)
NextProxyRelayErr ==
    \/ /\ \E h \in ReceiverHosts, p \in ReceiverPorts, ok \in BOOLEAN :
              StartSession(h, p, ok)
       /\ UNCHANGED <<regVars, allocVars, relayVars>>
    \/ /\ \E h \in ReceiverHosts, p \in ReceiverPorts : StopRequest(h, p)
       /\ UNCHANGED <<regVars, allocVars, relayVars>>
    \/ /\ MainDelete
       /\ UNCHANGED <<regVars, allocVars, relayVars>>
    \/ /\ \E id \in SessIds, relay \in RelayNames, err \in RelayErrs :
              RelayError(id, relay, err)
       /\ UNCHANGED <<regVars, allocVars, relayVars>>

\* ------------------------------------------------------------------------
\* The allocator on its own: calls of NewUdpProxyPair on a host where other
\* processes hold some ports
\* ------------------------------------------------------------------------
MaxAllocPort == 4       \* ports 0..MaxAllocPort are the arguments tried

ArgPorts == 0..MaxAllocPort
HostPorts == 0..(MaxAllocPort + 3)

AllocatePair(t1ok, t2ok, startPort, maxP) ==
    LET out == NewUdpProxyPair(t1ok, t2ok, startPort, maxP, occupied) IN
        /\ lastAlloc' = [called |-> TRUE, t1ok |-> t1ok, t2ok |-> t2ok,
                         startPort |-> startPort, maxPort |-> maxP,
                         before |-> occupied, out |-> out]
        /\ occupied' = occupied \cup out.held

NoAlloc ==
    [called |-> FALSE, t1ok |-> TRUE, t2ok |-> TRUE, startPort |-> 0,
     maxPort |-> 0, before |-> {},
     out |-> [ok |-> FALSE, rtp |-> 0, rtcp |-> 0, held |-> {}, touched |-> {},
              startPort |-> 0]]

InitAlloc ==
    /\ occupied = {}
    /\ lastAlloc = NoAlloc

InitAllocAny ==
    /\ occupied \in SUBSET ArgPorts
    /\ lastAlloc = NoAlloc

NextAlloc ==
    \/ /\ \E t1ok \in BOOLEAN, t2ok \in BOOLEAN, startPort \in ArgPorts,
             maxP \in ArgPorts : AllocatePair(t1ok, t2ok, startPort, maxP)
       /\ UNCHANGED <<regVars, proxyVars, relayVars>>

\* ------------------------------------------------------------------------
\* One relay and its workers: proxies/udp.go
\* ------------------------------------------------------------------------
MaxDatagrams == 4       \* datagrams that arrive on the listen socket in one run
MaxQueue == 2           \* capacity given to the channel proxy.packets (the
                        \* code makes it with buf_packets)
MaxCloseCalls == 2      \* calls of Close() the controller makes in one run

Workers == {"rx", "fw"}         \* readPackets, forwardPackets
Callers == {"ctl"} \cup Workers  \* who can call doclose

ErrClosedConn == "use of closed network connection"
ErrRead == "read error"
ErrWrite == "write error"
NoArg == "none"

NewRelay ==
    [listenOpen |-> TRUE, targetOpen |-> TRUE,
     once |-> "new", arg |-> NoArg, first |-> NoArg,
     Closed |-> FALSE, Err |-> RelayErrNil, bodyRuns |-> 0]

\* doclose with the body entered by every caller (no sync.Once)
DocloseNoOnce(r, err) ==
    <<[r EXCEPT !.once = "running", !.listenOpen = FALSE, !.targetOpen = FALSE,
                !.arg = err, !.first = IF @ = NoArg THEN err ELSE @],
      "doclose_body">>

\* UdpProxy.doclose(err), entry: closeOnce.Do. The first caller enters the
\* body and closes both sockets; a caller that arrives while the body runs
\* waits for it; a later caller returns at once. The result is the relay and
\* where the caller is next. first records the argument of the first call
\* that got into the body (it is not a field of the struct).
Doclose(r, err) ==
    IF r.once = "new"
      THEN <<[r EXCEPT !.once = "running", !.listenOpen = FALSE,
                       !.targetOpen = FALSE, !.arg = err, !.first = err],
             "doclose_body">>
      ELSE IF r.once = "running" THEN <<r, "doclose_wait">>
                                 ELSE <<r, "ret">>

\* UdpProxy.doclose, rest of the body: Err and Closed are set, the signal is
\* put on proxyClosed (capacity 1, one send: it does not block), Do returns.
DocloseBody(r) ==
    [r EXCEPT !.Err = r.arg, !.Closed = TRUE, !.bodyRuns = @ + 1, !.once = "done"]

\* What readPackets can read in proxy.Closed (line 115): the field is written
\* by the body of doclose with nothing ordering the two accesses, so while
\* the body runs either value can be seen.
ClosedRead(r) == IF r.once = "running" THEN {FALSE, TRUE} ELSE {r.Closed}

\* What a caller does when doclose has returned: Close() returns to the
\* controller; readPackets returns and its deferred close(proxy.packets)
\* runs; forwardPackets returns.
AfterDoclose(w) ==
    /\ pc' = [pc EXCEPT ![w] = IF w = "ctl" THEN "idle" ELSE "done"]
    /\ packets' = IF w = "rx" THEN [packets EXCEPT !.closed = TRUE] ELSE packets

CallDoclose(w, err) ==
    LET d == Doclose(proxy, err) IN
        /\ proxy' = d[1]
        /\ IF d[2] = "ret"
             THEN AfterDoclose(w)
             ELSE /\ pc' = [pc EXCEPT ![w] = d[2]]
                  /\ UNCHANGED packets

\* UdpProxy.Start: the two goroutines are spawned
Start ==
    /\ pc["ctl"] = "idle"
    /\ ~ctl.started
    /\ ctl' = [ctl EXCEPT !.started = TRUE]
    /\ pc' = [pc EXCEPT !["rx"] = "read", !["fw"] = "recv"]
    /\ UNCHANGED <<proxy, packets, buf, received, written>>

\* UdpProxy.Close: doclose(nil)
Close ==
    /\ pc["ctl"] = "idle"
    /\ ctl.calls < MaxCloseCalls
    /\ ctl' = [ctl EXCEPT !.calls = @ + 1]
    /\ CallDoclose("ctl", RelayErrNil)
    /\ UNCHANGED <<buf, received, written>>

\* the caller that is in the body of doclose gets to its end
DocloseFinish(w) ==
    /\ pc[w] = "doclose_body"
    /\ proxy' = DocloseBody(proxy)
    /\ AfterDoclose(w)
    /\ UNCHANGED <<buf, ctl, received, written>>

\* a caller that waited in closeOnce.Do goes on when the body has ended
DocloseWaited(w) ==
    /\ pc[w] = "doclose_wait"
    /\ proxy.once = "done"
    /\ AfterDoclose(w)
    /\ UNCHANGED <<proxy, buf, ctl, received, written>>

\* readPackets: listenConn.ReadFrom returns the next datagram, or the error
\* of a closed socket, which is passed to doclose
RxRead ==
    /\ pc["rx"] = "read"
    /\ IF proxy.listenOpen
         THEN /\ Len(received) < MaxDatagrams
              /\ received' = Append(received, Len(received) + 1)
              /\ buf' = [buf EXCEPT !["rx"] = Len(received) + 1]
              /\ pc' = [pc EXCEPT !["rx"] = "check"]
              /\ UNCHANGED <<proxy, packets>>
         ELSE /\ CallDoclose("rx", ErrClosedConn)
              /\ UNCHANGED <<buf, received>>
    /\ UNCHANGED <<ctl, written>>

\* readPackets: ReadFrom fails on the open socket
RxReadError ==
    /\ pc["rx"] = "read"
    /\ proxy.listenOpen
    /\ CallDoclose("rx", ErrRead)
    /\ UNCHANGED <<buf, ctl, received, written>>

\* readPackets: if proxy.Closed { return }
RxCheck ==
    /\ pc["rx"] = "check"
    /\ \E c \in ClosedRead(proxy) :
          IF c THEN /\ pc' = [pc EXCEPT !["rx"] = "done"]
                    /\ packets' = [packets EXCEPT !.closed = TRUE]
               ELSE /\ pc' = [pc EXCEPT !["rx"] = "enqueue"]
                    /\ UNCHANGED packets
    /\ UNCHANGED <<proxy, buf, ctl, received, written>>

\* readPackets: proxy.packets <- buf[:nbytes], blocking while the channel is
\* full
RxEnqueue ==
    /\ pc["rx"] = "enqueue"
    /\ Len(packets.q) < MaxQueue
    /\ packets' = [packets EXCEPT !.q = Append(@, buf["rx"])]
    /\ buf' = [buf EXCEPT !["rx"] = 0]
    /\ pc' = [pc EXCEPT !["rx"] = "read"]
    /\ UNCHANGED <<proxy, ctl, received, written>>

\* forwardPackets taking the datagram that was queued last
FwTakeLast ==
    /\ pc["fw"] = "recv"
    /\ IF packets.q # <<>>
         THEN /\ buf' = [buf EXCEPT !["fw"] = packets.q[Len(packets.q)]]
              /\ packets' = [packets EXCEPT !.q = SubSeq(@, 1, Len(@) - 1)]
              /\ pc' = [pc EXCEPT !["fw"] = "write"]
         ELSE /\ packets.closed
              /\ pc' = [pc EXCEPT !["fw"] = "done"]
              /\ UNCHANGED <<packets, buf>>
    /\ UNCHANGED <<proxy, ctl, received, written>>

\* forwardPackets: for bytes := range proxy.packets. The oldest datagram is
\* taken; the loop ends when the channel is closed and empty.
FwTake ==
    /\ pc["fw"] = "recv"
    /\ IF packets.q # <<>>
         THEN /\ buf' = [buf EXCEPT !["fw"] = Head(packets.q)]
              /\ packets' = [packets EXCEPT !.q = Tail(@)]
              /\ pc' = [pc EXCEPT !["fw"] = "write"]
         ELSE /\ packets.closed
              /\ pc' = [pc EXCEPT !["fw"] = "done"]
              /\ UNCHANGED <<packets, buf>>
    /\ UNCHANGED <<proxy, ctl, received, written>>

\* forwardPackets: targetConn.Write sends the datagram, or returns the error
\* of a closed socket, which is passed to doclose
FwWrite ==
    /\ pc["fw"] = "write"
    /\ IF proxy.targetOpen
         THEN /\ written' = Append(written, buf["fw"])
              /\ buf' = [buf EXCEPT !["fw"] = 0]
              /\ pc' = [pc EXCEPT !["fw"] = "recv"]
              /\ UNCHANGED <<proxy, packets>>
         ELSE /\ CallDoclose("fw", ErrClosedConn)
              /\ UNCHANGED <<buf, written>>
    /\ UNCHANGED <<ctl, received>>

\* forwardPackets: Write fails on the open socket
FwWriteError ==
    /\ pc["fw"] = "write"
    /\ proxy.targetOpen
    /\ CallDoclose("fw", ErrWrite)
    /\ UNCHANGED <<buf, ctl, received, written>>

InitRelay ==
    /\ proxy = NewRelay
    /\ packets = [q |-> <<>>, closed |-> FALSE]
    /\ pc = [w \in Callers |-> "idle"]
    /\ buf = [w \in Workers |-> 0]
    /\ ctl = [started |-> FALSE, calls |-> 0]
    /\ received = <<>>
    /\ written = <<>>

NextRelay ==
    \/ /\ Start
       /\ UNCHANGED <<regVars, proxyVars, allocVars>>
    \/ /\ Close
       /\ UNCHANGED <<regVars, proxyVars, allocVars>>
    \/ /\ \E w \in Callers : DocloseFinish(w)
       /\ UNCHANGED <<regVars, proxyVars, allocVars>>
    \/ /\ \E w \in Callers : DocloseWaited(w)
       /\ UNCHANGED <<regVars, proxyVars, allocVars>>
    \/ /\ RxRead
       /\ UNCHANGED <<regVars, proxyVars, allocVars>>
    \/ /\ RxReadError
       /\ UNCHANGED <<regVars, proxyVars, allocVars>>
    \/ /\ RxCheck
       /\ UNCHANGED <<regVars, proxyVars, allocVars>>
    \/ /\ RxEnqueue
       /\ UNCHANGED <<regVars, proxyVars, allocVars>>
    \/ /\ FwTake
       /\ UNCHANGED <<regVars, proxyVars, allocVars>>
    \/ /\ FwWrite
       /\ UNCHANGED <<regVars, proxyVars, allocVars>>
    \/ /\ FwWriteError
       /\ UNCHANGED <<regVars, proxyVars, allocVars>>

\* ------------------------------------------------------------------------
\* Specifications
\* ------------------------------------------------------------------------
vars == <<regVars, proxyVars, allocVars, relayVars>>

Init == InitReg /\ InitProxy /\ InitAlloc /\ InitRelay

SpecReg == Init /\ [][NextReg]_vars

SpecProxy == Init /\ [][NextProxy]_vars

\* The goroutines of AmpProxy.observe are scheduled fairly.
SpecProxyFair ==
    /\ SpecProxy
    /\ \A id \in 1..MaxProxySessions :
         /\ WF_vars(id \in SessIds /\ WatcherWake(id)
                      /\ UNCHANGED <<regVars, allocVars, relayVars>>)
         /\ WF_vars(id \in SessIds /\ WatcherDelete(id)
                      /\ UNCHANGED <<regVars, allocVars, relayVars>>)

SpecProxyRelayErr == Init /\ [][NextProxyRelayErr]_vars

SpecRelay == Init /\ [][NextRelay]_vars

\* The two workers and a caller inside doclose are scheduled fairly; a
\* transport error on an open socket, Start and Close need not happen.
SpecRelayFair ==
    /\ SpecRelay
    /\ WF_vars(RxRead /\ UNCHANGED <<regVars, proxyVars, allocVars>>)
    /\ WF_vars(RxCheck /\ UNCHANGED <<regVars, proxyVars, allocVars>>)
    /\ WF_vars(RxEnqueue /\ UNCHANGED <<regVars, proxyVars, allocVars>>)
    /\ WF_vars(FwTake /\ UNCHANGED <<regVars, proxyVars, allocVars>>)
    /\ WF_vars(FwWrite /\ UNCHANGED <<regVars, proxyVars, allocVars>>)
    /\ \A w \in Callers :
         /\ WF_vars(DocloseFinish(w) /\ UNCHANGED <<regVars, proxyVars, allocVars>>)
         /\ WF_vars(DocloseWaited(w) /\ UNCHANGED <<regVars, proxyVars, allocVars>>)

InitAnyHost == InitReg /\ InitProxy /\ InitAllocAny /\ InitRelay

SpecAlloc == InitAnyHost /\ [][NextAlloc]_vars

\* ------------------------------------------------------------------------
\* Properties of the session registry
\* ------------------------------------------------------------------------

\* C1: for every registered session, Cleanup has run at most once, and
\* exactly once as soon as a trigger is through: the gate has fired, the
\* watcher has finished its base.Stop(), a StopSession that called Stop has
\* returned, or StopSessions has returned with the session still in the map.
C1_CleanupExactlyOnce ==
    \A id \in BaseIds :
        /\ bases[id].cleanups <= 1
        /\ bases[id].Stopped = "fired" => bases[id].cleanups = 1
        /\ bases[id].watcher = "done" => bases[id].cleanups = 1
        /\ (result.op = "StopSession" /\ result.base = id /\ result.err = ErrNil)
              => bases[id].cleanups = 1
        /\ (result.op = "StopSessions" /\ \E k \in RegKeys : sessions[k] = id)
              => bases[id].cleanups = 1

\* C1 witness: the watcher and an explicit StopSession have both gone through
\* Stop on the same session, the watcher first, and Cleanup ran once.
C1_Witness ==
    \E id \in BaseIds :
        /\ bases[id].watcher = "done"
        /\ bases[id].firedBy = "watcher"
        /\ result = Returned("StopSession", result.key, id, ErrNil)
        /\ bases[id].cleanups = 1

\* C4: a StopSession on a session whose gate the watcher fired first returns
\* the "stopped prematurely" error, never nil.
C4_WatcherFirstIsReported ==
    \A id \in BaseIds :
        (result.op = "StopSession" /\ result.base = id
            /\ bases[id].firedBy = "watcher")
        => result.err = ErrPremature

\* C5: StopSession(key) on an entry whose gate has completely fired returns
\* "stopped prematurely: (no error)", runs no Cleanup, and removes the entry;
\* StopSession(key) without an entry returns "not found" and changes nothing.
C5_PrematureStop ==
    [][\A k \in RegKeys :
         StopSession(k) =>
           /\ (sessions[k] # NoBase /\ bases[sessions[k]].Stopped = "fired") =>
                /\ result' = Returned("StopSession", k, sessions[k], ErrPremature)
                /\ bases' = bases
                /\ main' = main
                /\ sessions' = [sessions EXCEPT ![k] = NoBase]
           /\ sessions[k] = NoBase =>
                /\ result' = Returned("StopSession", k, NoBase, ErrNoSession)
                /\ UNCHANGED <<sessions, bases, main>>
    ]_vars

\* C5 witness: a premature stop has been reported for a session whose gate
\* had fired and whose Cleanup ran once; the entry is gone.
C5_Witness ==
    /\ result.op = "StopSession"
    /\ result.err = ErrPremature
    /\ bases[result.base].Stopped = "fired"
    /\ bases[result.base].cleanups = 1
    /\ sessions[result.key] = NoBase

\* C14: while StopSessions is running no step changes the registry map, and
\* at the step where it returns every session that has an entry has had its
\* Cleanup run exactly once, whoever fired its gate and whenever.
C14_StopSessionsFiresAllKeepsAll ==
    [][(main.op = "StopSessions" \/ main'.op = "StopSessions") =>
         /\ sessions' = sessions
         /\ (main.op = "StopSessions" /\ main'.pc = "idle") =>
              /\ result' = Returned("StopSessions", "k1", NoBase, ErrNil)
              /\ \A k \in RegKeys :
                    sessions'[k] # NoBase =>
                       /\ bases'[sessions'[k]].cleanups = 1
                       /\ bases'[sessions'[k]].Stopped = "fired"
    ]_vars

\* C14 witness: StopSessions has returned with two entries in the map, one
\* whose gate the watcher had fired and one whose gate StopSessions fired;
\* both have had one Cleanup and both entries are still there.
C14_Witness ==
    /\ result.op = "StopSessions"
    /\ main.pc = "idle"
    /\ \A k \in RegKeys : sessions[k] # NoBase /\ bases[sessions[k]].cleanups = 1
    /\ sessions["k1"] # sessions["k2"]
    /\ \E k \in RegKeys : bases[sessions[k]].firedBy = "watcher"
    /\ \E k \in RegKeys : bases[sessions[k]].firedBy = "main"

\* C15: Cleanup of a session has run only when every observee the session
\* declares has been asked to stop and has finished.
C15_CleanupAfterObservees ==
    \A id \in BaseIds :
        bases[id].cleanups > 0 =>
            \A i \in 1..bases[id].nobs : bases[id].obs[i] = "finished"

\* ------------------------------------------------------------------------
\* Properties of the orchestrator
\* ------------------------------------------------------------------------
Entries == Cardinality({k \in ClientKeys : psessions[k] # NoSession})
OkStarts == Cardinality({id \in SessIds : psess[id].backend # "failed"})
NoSelfEnd == \A id \in SessIds : ~psess[id].self

\* C2: for every started proxy session the backend's Stop is invoked at most
\* once, and when the watcher's cleanup is through it was invoked exactly
\* once, both relays are closed and the session has no map entry.
C2_BackendStoppedOnce ==
    \A id \in SessIds :
        psess[id].backend # "failed" =>
            /\ psess[id].stops <= 1
            /\ psess[id].watcher = "done" =>
                  /\ psess[id].stops = 1
                  /\ psess[id].rtpClosed /\ psess[id].rtcpClosed
                  /\ ~Mapped(id)

\* C3: when a start request has returned the backend-start error, neither
\* relay allocated for it is open and the map has no entry for its key.
C3_FailedStartReleasesRelays ==
    (preply.op = "start" /\ preply.err = PErrBackend) =>
        /\ psessions[preply.key] = NoSession
        /\ \A id \in SessIds :
              (psess[id].backend = "failed" /\ psess[id].client = preply.key)
              => psess[id].rtpClosed /\ psess[id].rtcpClosed

\* C6: a start request for a key without an entry, with allocation and
\* backend start succeeding, returns nil and creates the entry under
\* "host:port"; a stop request for a key with an entry goes into cleanup and
\* returns nil with the entry removed; a stop request for a key without an
\* entry returns "not found" and changes nothing.
C6_StartStopStop ==
    [][/\ \A h \in ReceiverHosts, p \in ReceiverPorts :
            (/\ StartSession(h, p, TRUE)
             /\ psessions[ClientKey(h, p)] = NoSession
             /\ NewUdpProxyPair(TRUE, TRUE, minPort, maxPort, BoundPorts).ok)
            => /\ preply' = Reply("start", ClientKey(h, p), PErrNil)
               /\ psessions'[ClientKey(h, p)] = Len(psess')
               /\ psess'[Len(psess')].client = ClientKey(h, p)
               /\ psess'[Len(psess')].backend = "running"
       /\ (StartSession("127.0.0.1", 6000, TRUE)
             /\ psessions["127.0.0.1:6000"] = NoSession)
            => psessions'["127.0.0.1:6000"] # NoSession
       /\ \A h \in ReceiverHosts, p \in ReceiverPorts :
            StopRequest(h, p) =>
               IF psessions[ClientKey(h, p)] # NoSession
                 THEN /\ pmain' = [pc |-> "c_del", op |-> "stop",
                                   cur |-> psessions[ClientKey(h, p)]]
                      /\ UNCHANGED psessions
                 ELSE /\ preply' = Reply("stop", ClientKey(h, p), PErrNotFound)
                      /\ UNCHANGED <<psessions, psess, pmain>>
       /\ (MainDelete /\ pmain.op = "stop")
            => /\ preply' = Reply("stop", psess[pmain.cur].client, PErrNil)
               /\ psessions'[psess[pmain.cur].client] = NoSession
               /\ pmain' = PIdle
    ]_vars

\* C6 witness: start, stop and stop again of "127.0.0.1:6000" with nothing
\* else going on: the last reply is "not found", one stop has succeeded.
C6_Witness ==
    /\ preply = Reply("stop", "127.0.0.1:6000", PErrNotFound)
    /\ acct.distinct
    /\ acct.okStops = 1
    /\ Len(psess) = 1
    /\ psess[1].client = "127.0.0.1:6000"
    /\ psess[1].backend # "failed"
    /\ psessions["127.0.0.1:6000"] = NoSession

\* C7: a start request for a key that has an entry returns "already exists"
\* and leaves the map, every session's backend and relays, and the bound
\* ports as they were.
C7_DuplicateStartRejected ==
    [][\A h \in ReceiverHosts, p \in ReceiverPorts, ok \in BOOLEAN :
         (StartSession(h, p, ok) /\ psessions[ClientKey(h, p)] # NoSession)
         => /\ preply' = Reply("start", ClientKey(h, p), PErrExists)
            /\ UNCHANGED <<psessions, psess, pmain>>
            /\ BoundPorts' = BoundPorts
    ]_vars

\* C7 witness: a duplicate start has been rejected while the entry is there
C7_Witness ==
    /\ preply.op = "start"
    /\ preply.err = PErrExists
    /\ psessions[preply.key] # NoSession
    /\ ~psess[psessions[preply.key]].rtpClosed

\* C8 as stated: with pairwise distinct keys and StopServer left out, between
\* requests the number of entries is the number of start requests minus the
\* number of stop requests that succeeded. (With distinct keys every start
\* request builds one proxySession, so Len(psess) counts them.)
C8_EntriesAreStartsMinusStops ==
    (pmain.pc = "idle" /\ acct.distinct)
    => Entries = Len(psess) - acct.okStops

\* C8 amended: the same with the starts that succeeded, as long as no backend
\* session has ended on its own.
C8_EntriesAreOkStartsMinusStops ==
    (pmain.pc = "idle" /\ acct.distinct /\ NoSelfEnd)
    => Entries = OkStarts - acct.okStops

\* C8 witness: two keys started, one of them stopped, the other still there
C8_Witness ==
    /\ pmain.pc = "idle" /\ acct.distinct /\ NoSelfEnd
    /\ OkStarts = 2
    /\ acct.okStops = 1
    /\ Entries = 1

\* C9: once the backend of a session has ended on its own, eventually both
\* relays of the session are closed and no map entry leads to it.
C9_SelfEndIsTornDown ==
    \A id \in 1..MaxProxySessions :
        (id \in SessIds /\ psess[id].self)
        ~> (id \in SessIds /\ psess[id].rtpClosed /\ psess[id].rtcpClosed
              /\ ~Mapped(id))

\* C17: every session whose backend is running and whose two relays are open
\* has its entry in the session map.
C17_LiveSessionIsMapped ==
    \A id \in SessIds :
        (psess[id].backend = "running" /\ ~psess[id].rtpClosed
            /\ ~psess[id].rtcpClosed)
        => psessions[psess[id].client] = id

\* C20: the goroutine of observe is never at its delete on proxy.sessions
\* while the request path is at an access of the same map (the delete of its
\* own cleanupSession, or the range of StopServer).
C20_NoConcurrentMapAccess ==
    ~(/\ pmain.pc \in {"c_del", "ss_loop"}
      /\ \E id \in SessIds : psess[id].watcher = "c_del")

\* the part of a session that a transport error on one relay leaves alone
RelayFrame(s, relay) ==
    IF relay = "rtp"
      THEN <<s.rtcpClosed, s.rtcpErr, s.backend, s.stops, s.watcher, s.self>>
      ELSE <<s.rtpClosed, s.rtpErr, s.backend, s.stops, s.watcher, s.self>>

\* C16: a read or write error on an open relay closes that relay and records
\* the error in it, and changes neither another relay (its partner included),
\* nor a backend session, nor the session map; and as long as no cleanup has
\* run on a session, a relay of it is closed only by an error of its own.
C16_RelayErrorIsolated ==
    /\ [][\A id \in SessIds, relay \in RelayNames, err \in RelayErrs :
            RelayError(id, relay, err) =>
              /\ psessions' = psessions
              /\ \A j \in SessIds \ {id} : psess'[j] = psess[j]
              /\ RelayFrame(psess'[id], relay) = RelayFrame(psess[id], relay)
              /\ IF relay = "rtp"
                   THEN psess'[id].rtpClosed /\ psess'[id].rtpErr = err
                   ELSE psess'[id].rtcpClosed /\ psess'[id].rtcpErr = err
         ]_vars
    /\ [](\A id \in SessIds :
            psess[id].stops = 0 =>
              /\ psess[id].rtpClosed <=> psess[id].rtpErr # RelayErrNil
              /\ psess[id].rtcpClosed <=> psess[id].rtcpErr # RelayErrNil)

\* C16 witness: the RTP relay of a mapped session is closed with a read error
\* while its RTCP partner is open, the backend runs and the entry is there.
C16_Witness ==
    \E id \in SessIds :
        /\ psess[id].rtpClosed /\ psess[id].rtpErr = "read error"
        /\ ~psess[id].rtcpClosed /\ psess[id].rtcpErr = RelayErrNil
        /\ psess[id].backend = "running"
        /\ psess[id].stops = 0
        /\ psessions[psess[id].client] = id

\* ------------------------------------------------------------------------
\* Properties of the allocator
\* ------------------------------------------------------------------------
\* the candidates startPort + 2k whose two ports were both free
FreeCandidates(startPort, inUse) ==
    {q \in HostPorts : /\ q >= startPort
                       /\ (q - startPort) % 2 = 0
                       /\ q \notin inUse
                       /\ (q + 1) \notin inUse}

\* C10: a successful NewUdpProxyPair returns the relays on (p, p+1) with p
\* the smallest startPort + 2k whose two ports could both be bound.
C10_FirstFit ==
    (lastAlloc.called /\ lastAlloc.out.ok) =>
        /\ lastAlloc.out.rtcp = lastAlloc.out.rtp + 1
        /\ lastAlloc.out.rtp \in FreeCandidates(lastAlloc.startPort, lastAlloc.before)
        /\ \A q \in FreeCandidates(lastAlloc.startPort, lastAlloc.before) :
               lastAlloc.out.rtp <= q
        /\ lastAlloc.out.held = {lastAlloc.out.rtp, lastAlloc.out.rtp + 1}

\* C10 witness: the first pair was taken (both ports occupied), a later
\* candidate was half free, and the pair after those was returned.
C10_Witness ==
    /\ lastAlloc.called /\ lastAlloc.out.ok
    /\ {lastAlloc.startPort, lastAlloc.startPort + 1, lastAlloc.startPort + 3}
           \subseteq lastAlloc.before
    /\ lastAlloc.out.rtp = lastAlloc.startPort + 4

\* C11: NewUdpProxyPair leaves no socket bound besides the pair it returns:
\* after a failed call the allocator holds nothing and the bound ports are
\* those bound before the call (a first relay that was bound for a candidate
\* whose second relay failed has been closed); a call on a range whose ports
\* are all occupied fails, and has bound nothing on the way.
C11_NoLeakedSocket ==
    lastAlloc.called =>
        /\ ~lastAlloc.out.ok =>
              /\ lastAlloc.out.held = {}
              /\ occupied = lastAlloc.before
        /\ lastAlloc.out.ok =>
              /\ lastAlloc.out.held = {lastAlloc.out.rtp, lastAlloc.out.rtcp}
              /\ occupied = lastAlloc.before \cup {lastAlloc.out.rtp, lastAlloc.out.rtcp}
        /\ (/\ lastAlloc.startPort <= lastAlloc.maxPort
            /\ (lastAlloc.startPort..lastAlloc.maxPort) \subseteq lastAlloc.before)
           => /\ ~lastAlloc.out.ok
              /\ lastAlloc.out.touched = {}

\* C11 witness: a call with resolvable targets failed after two candidates
\* whose first port was bound and whose second port was taken; nothing is
\* left bound.
C11_Witness ==
    /\ lastAlloc.called /\ ~lastAlloc.out.ok
    /\ lastAlloc.t1ok /\ lastAlloc.t2ok
    /\ Cardinality(lastAlloc.out.touched) >= 2
    /\ lastAlloc.out.held = {}
    /\ occupied = lastAlloc.before

\* C19: a call with startPort <= maxPort binds, even for a moment, only ports
\* of startPort..maxPort, and the relays it returns listen inside that range.
C19_PortsInRange ==
    (lastAlloc.called /\ lastAlloc.startPort <= lastAlloc.maxPort) =>
        /\ lastAlloc.out.touched \subseteq (lastAlloc.startPort..lastAlloc.maxPort)
        /\ lastAlloc.out.ok =>
              {lastAlloc.out.rtp, lastAlloc.out.rtcp}
                  \subseteq (lastAlloc.startPort..lastAlloc.maxPort)

\* ------------------------------------------------------------------------
\* Properties of one relay
\* ------------------------------------------------------------------------
IsPrefix(s, t) == Len(s) <= Len(t) /\ SubSeq(t, 1, Len(s)) = s

\* C12: whatever close calls the controller, readPackets and forwardPackets
\* make, one after the other or at the same time, the body of doclose runs at
\* most once, and exactly once when a Close() has returned; Closed never goes
\* back to false; Err is the argument of the first call that got to run (nil
\* when that was Close(), the error of the worker otherwise) and, once Closed
\* is set, never changes.
C12_CloseOnce ==
    /\ [](/\ proxy.bodyRuns <= 1
          /\ (ctl.calls > 0 /\ pc["ctl"] = "idle") => proxy.bodyRuns = 1
          /\ proxy.once = "done" => proxy.bodyRuns = 1
          /\ proxy.Closed => proxy.Err = proxy.first
          /\ proxy.Closed <=> proxy.bodyRuns > 0)
    /\ [][/\ proxy.Closed => (proxy'.Closed /\ proxy'.Err = proxy.Err)
          /\ proxy.first # NoArg => proxy'.first = proxy.first
          /\ (proxy.first = NoArg /\ proxy'.first # NoArg) =>
                proxy'.first = IF pc'["ctl"] = "doclose_body" THEN RelayErrNil
                               ELSE IF pc'["rx"] = "doclose_body"
                                      THEN ErrRead
                                      ELSE ErrWrite
         ]_vars

\* C12 witness: the forwarder's write error closed the relay, the controller
\* has called Close() twice and both workers are through: the body ran once
\* and Err is the write error.
C12_Witness ==
    /\ ctl.calls >= 2 /\ pc["ctl"] = "idle"
    /\ pc["rx"] = "done" /\ pc["fw"] = "done"
    /\ proxy.bodyRuns = 1
    /\ proxy.Closed
    /\ proxy.Err = ErrWrite

\* C13: the datagrams written to the target are always a prefix of the
\* datagrams received on the listen socket, and every received datagram is
\* eventually written unless the relay gets closed.
C13_ForwardInOrder ==
    /\ [](IsPrefix(written, received))
    /\ \A n \in 1..MaxDatagrams :
          (Len(received) >= n) ~> (Len(written) >= n \/ proxy.Closed)

\* C13 witness: three datagrams have been received and written, two of them
\* having been in the queue together, and the relay is open.
C13_Witness ==
    /\ Len(written) >= 3
    /\ written = received
    /\ proxy.once = "new"

\* C18: once a started relay is closed, readPackets and forwardPackets both
\* end.
C18_WorkersTerminate ==
    (ctl.started /\ proxy.Closed) ~> (pc["rx"] = "done" /\ pc["fw"] = "done")

====
